---------------------------- MODULE Spec2Model ----------------------------
(***************************************************************************)
(* A model of ip_geo's interval map: IpAddrEntry (a range of addresses and *)
(* a value), IpAddrMap (a Vec of entries and a dirty flag) with insert,    *)
(* cleanup, search, and the shared-access lookup try_search that the       *)
(* server calls.  Addresses are the naturals 0 .. MaxKey, standing for the *)
(* integer value of an Ipv4Addr or Ipv6Addr (both are Ord + Copy).         *)
(* Around the map: its owning iterator, its constructors, the database     *)
(* loader and the server's start-up and request handlers, and get_config,  *)
(* which settles the database options of the two binaries.                 *)
(***************************************************************************)
EXTENDS Integers, Sequences, FiniteSets

\* Largest address of the model; addresses are 0 .. MaxKey.
MaxKey == 2

\* Most inserts made on one map.
MaxInserts == 3

\* The count of consecutive cleanup calls saturates here.
MaxStreak == 2

Keys == 0 .. MaxKey

\* The values T stored with a range (country codes); T: PartialEq is identity.
Values == {"a", "b"}

VARIABLES
    inner,      \* IpAddrMap.inner: the Vec of entries
    dirty,      \* IpAddrMap.dirty
    pending,    \* history: an insert happened since the last cleanup or search
    inserted,   \* history: number of insert calls made on the map
    cleanups,   \* history: number of cleanup calls made in a row just now
    op,         \* the operation that ran last
    address,    \* the address the last lookup was given, -1 when none
    found,      \* what the last lookup returned
    args,       \* the (start, end, value) and address an entry is built and compared with
    made,       \* what IpAddrEntry::new returned for args
    ordering,   \* what partial_cmp returned for the made entry and args.key
    mutated,    \* history: start_mut or end_mut was used to store a bound in an entry
    yielded,    \* what into_iter took out of the map, once the map is consumed
    batch,      \* a set of entries that is to be inserted, in some order
    todo,       \* the entries of batch not inserted yet
    phase,      \* how far the server's start-up has come with the map
    handler,    \* per request handler: its position, address, lookup result and reply
    file,       \* history: the records the loader has read from the database file
    arguments,  \* the database options as given on the command line
    configFile, \* the config file: whether it could be read, and its database options
    config,     \* the database options get_config settled on
    ctor,       \* the constructor call that made the map
    input,      \* the argument of a conversion or selection function
    output      \* what the function returned for input

mapVars == <<inner, dirty, pending, inserted, cleanups, op, address, found>>
entryVars == <<args, made, ordering, mutated>>
\* The state of what surrounds the map: its consumers, loaders and servers.
batchVars == <<batch, todo>>
serverVars == <<phase, handler, file>>
configVars == <<arguments, configFile, config>>
callVars == <<input, output>>
otherVars == <<yielded, batch, todo, phase, handler, file, arguments, configFile, config,
               ctor, input, output>>
vars == <<inner, dirty, pending, inserted, cleanups, op, address, found, args, made, ordering,
          mutated, yielded, batch, todo, phase, handler, file, arguments, configFile, config,
          ctor, input, output>>

-----------------------------------------------------------------------------
(* IpAddrEntry *)

Entry(start, end, value) == [start |-> start, end |-> end, value |-> value]

\* Result<IpAddrEntry, EmptyRangeError>
OkEntry(e) == [tag |-> "Ok", start |-> e.start, end |-> e.end, value |-> e.value]
EmptyRangeError == [tag |-> "EmptyRangeError", start |-> 0, end |-> 0, value |-> "-"]
NotMade == [tag |-> "NotMade", start |-> 0, end |-> 0, value |-> "-"]

\* A plausible slip: a strict comparison, which rejects single-address ranges.
IpAddrEntryNewStrict(start, end, value) ==
    IF start < end THEN OkEntry(Entry(start, end, value)) ELSE EmptyRangeError

\* A plausible slip: the range not checked at all.
IpAddrEntryNewUnchecked(start, end, value) == OkEntry(Entry(start, end, value))

\* IpAddrEntry::new
IpAddrEntryNew(start, end, value) ==
    IF start <= end THEN OkEntry(Entry(start, end, value)) ELSE EmptyRangeError

\* self.range().contains(other), the PartialEq<A> of an entry
RangeContains(e, k) == e.start <= k /\ k <= e.end

\* A plausible slip: the end of the range taken as exclusive.
PartialCmpExclusiveEnd(e, k) ==
    IF k >= e.end THEN "Less"
    ELSE IF k < e.start THEN "Greater"
    ELSE IF RangeContains(e, k) THEN "Equal"
    ELSE "unreachable"

\* A plausible slip: the arm for addresses past the end left out.
PartialCmpNoLess(e, k) ==
    IF k < e.start THEN "Greater" ELSE "Equal"

\* A plausible slip: the Less and Greater arms exchanged.
PartialCmpSwapped(e, k) ==
    IF k > e.end THEN "Greater"
    ELSE IF k < e.start THEN "Less"
    ELSE IF RangeContains(e, k) THEN "Equal"
    ELSE "unreachable"

\* A plausible slip: Equal only for the first address of the range, which
\* leaves the other addresses of the range to the unreachable arm.
PartialCmpEqualStartOnly(e, k) ==
    IF k > e.end THEN "Less"
    ELSE IF k < e.start THEN "Greater"
    ELSE IF k = e.start THEN "Equal"
    ELSE "unreachable"

\* impl PartialOrd<A> for IpAddrEntry: partial_cmp(&self, other: &A)
PartialCmp(e, k) ==
    IF k > e.end THEN "Less"
    ELSE IF k < e.start THEN "Greater"
    ELSE IF RangeContains(e, k) THEN "Equal"
    ELSE "unreachable"

\* derive(PartialEq) on IpAddrEntry: field by field
EntryEq(a, b) == a.start = b.start /\ a.end = b.end /\ a.value = b.value

-----------------------------------------------------------------------------
(* IpAddrMap: cleanup *)

\* A plausible slip: no duplicate removal at all.
DedupByNone(s) == s

\* A plausible slip: entries compared by their range alone, so that of two
\* consecutive entries of one range and different values the second is dropped.
DedupByRange(s) ==
    LET keep == {i \in 1 .. Len(s) :
                    i = 1 \/ s[i].start # s[i - 1].start \/ s[i].end # s[i - 1].end}
    IN  [j \in 1 .. Cardinality(keep) |->
            s[CHOOSE i \in keep : Cardinality({m \in keep : m < i}) = j - 1]]

RECURSIVE DedupBy(_)
\* Vec::dedup_by(|a, b| a == b): of each run of consecutive equal entries
\* the first is kept.
DedupBy(s) ==
    IF Len(s) <= 1 THEN s
    ELSE LET r == DedupBy(SubSeq(s, 1, Len(s) - 1))
             x == s[Len(s)]
         IN  IF EntryEq(x, r[Len(r)]) THEN r ELSE Append(r, x)

\* A plausible slip: the sort key is the start alone.
KeyLeqStartOnly(a, b) == a.start <= b.start

\* The order of the sort key |e| (e.start, e.end): tuples compare lexicographically.
KeyLeq(a, b) == a.start < b.start \/ (a.start = b.start /\ a.end <= b.end)

IsSortedByKey(s) == \A i \in 1 .. Len(s) - 1 : KeyLeq(s[i], s[i + 1])

RemoveAt(s, i) == SubSeq(s, 1, i - 1) \o SubSeq(s, i + 1, Len(s))

RECURSIVE SortUnstableByKey(_)
\* Vec::sort_unstable_by_key: the entries rearranged into ascending key order.
\* The order among entries of equal key is unspecified, so every such
\* arrangement is a possible outcome: any entry of least key may come first.
SortUnstableByKey(s) ==
    IF Len(s) = 0 THEN {<<>>}
    ELSE LET least == {i \in 1 .. Len(s) : \A j \in 1 .. Len(s) : KeyLeq(s[i], s[j])}
         IN  UNION {{<<s[i]>> \o t : t \in SortUnstableByKey(RemoveAt(s, i))} : i \in least}

\* A plausible slip: the early return on a clean map left out.
CleanupInnerNoGuard(in, d) == SortUnstableByKey(DedupBy(in))

\* A plausible slip: the sort left out of cleanup.
CleanupInnerNoSort(in, d) == IF ~d THEN {in} ELSE {DedupBy(in)}

\* The sequences cleanup can leave in self.inner: unchanged when not dirty,
\* else dedup_by, then sort_unstable_by_key (shrink_to_fit changes capacity only).
CleanupInner(in, d) ==
    IF ~d THEN {in} ELSE SortUnstableByKey(DedupBy(in))

-----------------------------------------------------------------------------
(* IpAddrMap: search *)

\* Result<usize, usize> of binary_search_by; indices are 0-based as in Rust.
Found(i) == [ok |-> TRUE, index |-> i]
Missing(i) == [ok |-> FALSE, index |-> i]
\* The closure panicked (unreachable!() in partial_cmp) and the search unwinds.
Panicked == [ok |-> FALSE, index |-> -1]

RECURSIVE HalvingLoop(_, _, _, _)
\* slice::binary_search_by as a loop over [left, right) that returns at the
\* first Equal probe.
HalvingLoop(s, k, left, right) ==
    IF left < right
    THEN LET mid == left + ((right - left) \div 2)
             cmp == PartialCmp(s[mid + 1], k)
         IN  IF cmp = "unreachable" THEN Panicked
             ELSE IF cmp = "Equal" THEN Found(mid)
             ELSE HalvingLoop(s, k,
                              IF cmp = "Less" THEN mid + 1 ELSE left,
                              IF cmp = "Greater" THEN mid ELSE right)
    ELSE Missing(left)

RECURSIVE BaseLoop(_, _, _, _)
\* slice::binary_search_by as a loop that narrows (base, size) without an
\* early return and compares once more at the end.
BaseLoop(s, k, base, size) ==
    IF size > 1
    THEN LET half == size \div 2
             mid == base + half
             cmp == PartialCmp(s[mid + 1], k)
         IN  IF cmp = "unreachable" THEN Panicked
             ELSE BaseLoop(s, k, IF cmp = "Greater" THEN base ELSE mid, size - half)
    ELSE LET cmp == PartialCmp(s[base + 1], k)
         IN  IF cmp = "unreachable" THEN Panicked
             ELSE IF cmp = "Equal" THEN Found(base)
             ELSE Missing(base + (IF cmp = "Less" THEN 1 ELSE 0))

\* The two shapes the standard library has given binary_search_by.
SearchImpls == {"halving", "base"}

\* self.inner.binary_search_by(|e| e.partial_cmp(&address).unwrap())
BinarySearchBy(s, k, impl) ==
    IF Len(s) = 0 THEN Missing(0)
    ELSE IF impl = "halving" THEN HalvingLoop(s, k, 0, Len(s))
    ELSE BaseLoop(s, k, 0, Len(s))

\* Lookup results: Option<&T> of search, Result<&T, Error> of try_search.
Some(v) == [tag |-> "Some", value |-> v]
None == [tag |-> "None", value |-> "-"]
Ok(v) == [tag |-> "Ok", value |-> v]
NoValueFound == [tag |-> "NoValueFound", value |-> "-"]
DirtyMap == [tag |-> "DirtyMap", value |-> "-"]
Panic == [tag |-> "Panic", value |-> "-"]
NoLookup == [tag |-> "NoLookup", value |-> "-"]

\* .ok()? and Some(self.inner[index].value())
SearchResult(s, k, impl) ==
    LET r == BinarySearchBy(s, k, impl)
    IN  IF r = Panicked THEN Panic
        ELSE IF r.ok THEN Some(s[r.index + 1].value) ELSE None

\* try_search(&self, address): on a dirty map the DirtyMap error; else the
\* same binary search, its miss reported as NoValueFound.
TrySearchResult(s, d, k, impl) ==
    IF d THEN DirtyMap
    ELSE LET r == BinarySearchBy(s, k, impl)
         IN  IF r = Panicked THEN Panic
             ELSE IF r.ok THEN Ok(s[r.index + 1].value) ELSE NoValueFound

-----------------------------------------------------------------------------
(* The map's operations as steps *)

NoArgs == [start |-> 0, end |-> 0, value |-> "-", key |-> 0]

\* IpAddrMap::new(): no entries, not dirty.
InitMap ==
    /\ inner = <<>>
    /\ dirty = FALSE
    /\ pending = FALSE
    /\ inserted = 0
    /\ cleanups = 0
    /\ op = "new"
    /\ address = -1
    /\ found = NoLookup

\* The map not yet consumed by into_iter.
NotConsumed == [consumed |-> FALSE, items |-> <<>>]

\* The request handlers of the server (warp runs them concurrently).
Handlers == {"h1", "h2"}

\* A handler that has not replied: no status, no body.
NoReply == [status |-> 0, body |-> "-"]

\* A handler that has not had a request.
IdleHandler == [pc |-> "idle", key |-> -1, result |-> NoLookup, reply |-> NoReply]

\* The database options of Arguments: path, length and comment, per family.
Options == {"ipv4_path", "ipv4_len", "ipv4_comment", "ipv6_path", "ipv6_len", "ipv6_comment"}

\* Option::None of an option, on the command line, in the file or in the result.
Absent == "None"

\* No consumer: the map is not iterated.
IdleIter == yielded = NotConsumed

\* No batch of entries is being inserted.
IdleBatch == batch = {} /\ todo = {}

\* No server: the map is not being loaded for sharing, and no handler runs.
IdleServer ==
    /\ phase = "none"
    /\ handler = [h \in Handlers |-> IdleHandler]
    /\ file = <<>>

\* No configuration is being read.
IdleConfig ==
    /\ arguments = [o \in Options |-> Absent]
    /\ configFile = [status |-> "unreadable", options |-> [o \in Options |-> Absent]]
    /\ config = [o \in Options |-> Absent]

\* The map was made by IpAddrMap::new().
IdleCtor == ctor = [kind |-> "new", capacity |-> 0]

\* No function has been given an argument.
NoCall == [kind |-> "none"]

\* No conversion or selection function is being called.
IdleCall == input = NoCall /\ output = NoCall

\* Nothing surrounds the map: no consumer, loader or server has acted.
InitOther ==
    /\ IdleIter
    /\ IdleCall
    /\ IdleBatch
    /\ IdleServer
    /\ IdleConfig
    /\ IdleCtor

Init ==
    /\ InitMap
    /\ args = NoArgs
    /\ made = NotMade
    /\ ordering = "None"
    /\ mutated = FALSE
    /\ InitOther

\* A plausible slip: the push without the dirty mark.
InsertNoDirty(entry) ==
    /\ inserted < MaxInserts
    /\ inner' = Append(inner, entry)
    /\ dirty' = dirty
    /\ pending' = TRUE
    /\ inserted' = inserted + 1
    /\ cleanups' = 0
    /\ op' = "insert"
    /\ address' = -1
    /\ found' = NoLookup

\* A plausible slip: the entry put at the front of the Vec.
InsertFront(entry) ==
    /\ inserted < MaxInserts
    /\ inner' = <<entry>> \o inner
    /\ dirty' = TRUE
    /\ pending' = TRUE
    /\ inserted' = inserted + 1
    /\ cleanups' = 0
    /\ op' = "insert"
    /\ address' = -1
    /\ found' = NoLookup

\* IpAddrMap::insert(entry)
Insert(entry) ==
    /\ inserted < MaxInserts
    /\ inner' = Append(inner, entry)
    /\ dirty' = TRUE
    /\ pending' = TRUE
    /\ inserted' = inserted + 1
    /\ cleanups' = 0
    /\ op' = "insert"
    /\ address' = -1
    /\ found' = NoLookup

\* map.insert(IpAddrEntry::new(start, end, value).unwrap()), as the loaders
\* and the doctests insert: only an Ok entry reaches insert.
InsertNew(start, end, value) ==
    LET r == IpAddrEntryNew(start, end, value)
    IN  /\ r.tag = "Ok"
        /\ Insert(Entry(r.start, r.end, r.value))
        /\ UNCHANGED <<entryVars, otherVars>>

\* A plausible slip: the dirty flag not reset at the end of cleanup.
CleanupMapKeepsDirty ==
    /\ \E t \in CleanupInner(inner, dirty) : inner' = t
    /\ dirty' = dirty
    /\ pending' = FALSE
    /\ cleanups' = IF cleanups < MaxStreak THEN cleanups + 1 ELSE cleanups
    /\ op' = "cleanup"
    /\ address' = -1
    /\ found' = NoLookup
    /\ UNCHANGED inserted

\* IpAddrMap::cleanup(), its effect on the map
CleanupMap ==
    /\ \E t \in CleanupInner(inner, dirty) : inner' = t
    /\ dirty' = FALSE
    /\ pending' = FALSE
    /\ cleanups' = IF cleanups < MaxStreak THEN cleanups + 1 ELSE cleanups
    /\ op' = "cleanup"
    /\ address' = -1
    /\ found' = NoLookup
    /\ UNCHANGED inserted

\* IpAddrMap::cleanup()
Cleanup == CleanupMap /\ UNCHANGED <<entryVars, otherVars>>

\* A plausible slip: the binary search run on the Vec as it stands, without
\* the cleanup.
SearchMapNoCleanup(k) ==
    /\ \E impl \in SearchImpls : found' = SearchResult(inner, k, impl)
    /\ cleanups' = 0
    /\ op' = "search"
    /\ address' = k
    /\ UNCHANGED <<inner, dirty, pending, inserted>>

\* IpAddrMap::search(address): cleanup, then the binary search on the result.
SearchMap(k) ==
    /\ \E t \in CleanupInner(inner, dirty), impl \in SearchImpls :
          /\ inner' = t
          /\ found' = SearchResult(t, k, impl)
    /\ dirty' = FALSE
    /\ pending' = FALSE
    /\ cleanups' = 0
    /\ op' = "search"
    /\ address' = k
    /\ UNCHANGED inserted

\* IpAddrMap::search(address)
Search(k) == SearchMap(k) /\ UNCHANGED <<entryVars, otherVars>>

\* IpAddrMap::try_search(address) through a shared reference.  The address
\* is recorded only when the binary search ran: on a dirty map it is not read.
TrySearchMap(k) ==
    /\ \E impl \in SearchImpls : found' = TrySearchResult(inner, dirty, k, impl)
    /\ cleanups' = 0
    /\ op' = "try_search"
    /\ address' = IF dirty THEN -1 ELSE k
    /\ UNCHANGED <<inner, dirty, pending, inserted>>

\* IpAddrMap::try_search(address)
TrySearch(k) == TrySearchMap(k) /\ UNCHANGED <<entryVars, otherVars>>

Next ==
    \/ \E start \in Keys, end \in Keys, value \in Values : InsertNew(start, end, value)
    \/ Cleanup
    \/ \E k \in Keys : Search(k)

Spec == Init /\ [][Next]_vars

\* The map used through insert, cleanup and the shared-access lookup alone.
NextTry ==
    \/ \E start \in Keys, end \in Keys, value \in Values : InsertNew(start, end, value)
    \/ Cleanup
    \/ \E k \in Keys : TrySearch(k)

SpecTry == Init /\ [][NextTry]_vars

-----------------------------------------------------------------------------
(* An entry built from drawn arguments and compared with a drawn address *)

InitEntry ==
    /\ InitMap
    /\ args \in [start : Keys, end : Keys, value : Values, key : Keys]
    /\ made = NotMade
    /\ ordering = "None"
    /\ mutated = FALSE
    /\ InitOther

\* let entry = IpAddrEntry::new(start, end, value)
NewEntry ==
    /\ made = NotMade
    /\ made' = IpAddrEntryNew(args.start, args.end, args.value)
    /\ UNCHANGED <<args, ordering, mutated, mapVars, otherVars>>

\* entry.partial_cmp(&key), as in the doctest's entry > key, == key, < key
Compare ==
    /\ made.tag = "Ok"
    /\ ordering' = PartialCmp(Entry(made.start, made.end, made.value), args.key)
    /\ UNCHANGED <<args, made, mutated, mapVars, otherVars>>

NextEntry == NewEntry \/ Compare

SpecEntry == InitEntry /\ [][NextEntry]_vars

\* map.insert(entry.clone()): the one entry that was made, inserted again
\* and again.
InsertMade ==
    /\ made.tag = "Ok"
    /\ Insert(Entry(made.start, made.end, made.value))
    /\ UNCHANGED <<entryVars, otherVars>>

NextDup ==
    \/ NewEntry
    \/ InsertMade
    \/ Cleanup
    \/ \E k \in Keys : Search(k)

SpecDup == InitEntry /\ [][NextDup]_vars

-----------------------------------------------------------------------------
(* The map consumed by its owning iterator *)

\* IntoIterator::into_iter(self): self.inner.into_iter(), the Vec handed over
\* as it stands; the map is moved and takes no further call.
IntoIter ==
    /\ ~yielded.consumed
    /\ yielded' = [consumed |-> TRUE, items |-> inner]
    /\ UNCHANGED <<mapVars, entryVars, batchVars, serverVars, configVars, ctor, callVars>>

\* Inserts and cleanups in any order, then for entry in map.
NextIter ==
    \/ /\ ~yielded.consumed
       /\ \E start \in Keys, end \in Keys, value \in Values : InsertNew(start, end, value)
    \/ /\ ~yielded.consumed
       /\ Cleanup
    \/ IntoIter

SpecIter == Init /\ [][NextIter]_vars

-----------------------------------------------------------------------------
(* A set of non-overlapping entries inserted in any order *)

\* The entries IpAddrEntry::new accepts.
ValidEntries ==
    {e \in [start : Keys, end : Keys, value : Values] :
        IpAddrEntryNew(e.start, e.end, e.value).tag = "Ok"}

\* The sets of at most MaxInserts entries whose ranges are pairwise disjoint.
Batches ==
    {b \in SUBSET ValidEntries :
        /\ Cardinality(b) <= MaxInserts
        /\ \A e1 \in b, e2 \in b : e1 # e2 => (e1.end < e2.start \/ e2.end < e1.start)}

\* A batch is chosen; the map is new.
InitBatch ==
    /\ InitMap
    /\ args = NoArgs
    /\ made = NotMade
    /\ ordering = "None"
    /\ mutated = FALSE
    /\ batch \in Batches
    /\ todo = batch
    /\ IdleIter
    /\ IdleCall
    /\ IdleServer
    /\ IdleConfig
    /\ IdleCtor

\* map.insert(e) for an entry of the batch that is not inserted yet: the
\* order of the calls is free.
InsertOne(e) ==
    /\ e \in todo
    /\ Insert(e)
    /\ todo' = todo \ {e}
    /\ UNCHANGED <<entryVars, yielded, batch, serverVars, configVars, ctor, callVars>>

NextBatch ==
    \/ \E e \in ValidEntries : InsertOne(e)
    \/ Cleanup
    \/ \E k \in Keys : Search(k)

SpecBatch == InitBatch /\ [][NextBatch]_vars

-----------------------------------------------------------------------------
(* get_config: the database options from command line, config file, defaults *)

\* The built-in defaults of get_config.
Default ==
    [ipv4_path    |-> "/usr/share/tor/geoip",
     ipv4_len     |-> "200_000",
     ipv4_comment |-> "#",
     ipv6_path    |-> "/usr/share/tor/geoip6",
     ipv6_len     |-> "60_000",
     ipv6_comment |-> "#"]

\* get_config_file_arguments(&arguments).and_then(|v| v.ok()): the options of
\* the file when it could be read (fs::read_to_string) and parsed
\* (toml::from_str), else None, which supplies no option.
FromConfig ==
    IF configFile.status = "read"
    THEN configFile.options
    ELSE [o \in Options |-> Absent]

\* arguments.X.or_else(|| from_config.and_then(|v| v.X)).unwrap_or(default)
OrElseUnwrapOr(o) ==
    IF arguments[o] # Absent THEN arguments[o]
    ELSE IF FromConfig[o] # Absent THEN FromConfig[o]
    ELSE Default[o]

\* arguments.X.unwrap_or_else(|| default)
UnwrapOrElse(o) ==
    IF arguments[o] # Absent THEN arguments[o] ELSE Default[o]

\* The value get_config gives an option: ipv4_path is taken from the command
\* line or the default; every other option also consults the config file.
GetConfigOption(o) ==
    IF o = "ipv4_path" THEN UnwrapOrElse(o) ELSE OrElseUnwrapOr(o)

\* Any command line and any config file: each option given or not, the file
\* unreadable, not valid TOML, or read.
InitConfig ==
    /\ InitMap
    /\ args = NoArgs
    /\ made = NotMade
    /\ ordering = "None"
    /\ mutated = FALSE
    /\ arguments \in [Options -> {Absent, "from command line"}]
    /\ configFile \in [status : {"unreadable", "invalid", "read"},
                       options : [Options -> {Absent, "from config file"}]]
    /\ config = [o \in Options |-> Absent]
    /\ IdleIter
    /\ IdleCall
    /\ IdleBatch
    /\ IdleServer
    /\ IdleCtor

\* get_config(arguments)
GetConfig ==
    /\ \A o \in Options : config[o] = Absent
    /\ config' = [o \in Options |-> GetConfigOption(o)]
    /\ UNCHANGED <<mapVars, entryVars, yielded, batchVars, serverVars, arguments, configFile, ctor, callVars>>

NextConfig == GetConfig

SpecConfig == InitConfig /\ [][NextConfig]_vars

-----------------------------------------------------------------------------
(* The constructors *)

\* Largest capacity hint given to new_with_capacity.
MaxCapacity == 15

\* IpAddrMap::new(): Vec::new(), dirty: false
NewMap == [inner |-> <<>>, dirty |-> FALSE]

\* A plausible slip: the pre-sized map marked dirty.
NewWithCapacityDirty(capacity) == [inner |-> <<>>, dirty |-> TRUE]

\* IpAddrMap::new_with_capacity(capacity): Vec::with_capacity(capacity) holds
\* no element whatever the capacity; dirty: false
NewWithCapacity(capacity) == [inner |-> <<>>, dirty |-> FALSE]

\* Default::default(): Self::new()
DefaultMap == NewMap

\* The constructor calls.
Ctors ==
    {[kind |-> "new", capacity |-> 0], [kind |-> "default", capacity |-> 0]}
        \cup {[kind |-> "new_with_capacity", capacity |-> c] : c \in 0 .. MaxCapacity}

\* The map a constructor call returns.
Construct(c) ==
    CASE c.kind = "new" -> NewMap
      [] c.kind = "default" -> DefaultMap
      [] c.kind = "new_with_capacity" -> NewWithCapacity(c.capacity)

\* A map as one of the constructors returns it.
InitNew ==
    /\ ctor \in Ctors
    /\ inner = Construct(ctor).inner
    /\ dirty = Construct(ctor).dirty
    /\ pending = FALSE
    /\ inserted = 0
    /\ cleanups = 0
    /\ op = "new"
    /\ address = -1
    /\ found = NoLookup
    /\ args = NoArgs
    /\ made = NotMade
    /\ ordering = "None"
    /\ mutated = FALSE
    /\ IdleIter
    /\ IdleCall
    /\ IdleBatch
    /\ IdleServer
    /\ IdleConfig

\* A map that nothing is inserted into, searched and cleaned up.
NextNew ==
    \/ Cleanup
    \/ \E k \in Keys : Search(k)

SpecNew == InitNew /\ [][NextNew]_vars

-----------------------------------------------------------------------------
(* The server: the loader, the shared handle, the request handlers *)

\* Most records of a database file that are inserted into the map.
MaxRecords == 2

\* A country field that is no known country or region: Either::Right.
Unrecognized == "??"

\* A plausible slip: every error answered as an internal server error.
ReplyForErrors500(result) ==
    IF result.tag = "Ok"
    THEN [status |-> 200, body |-> result.value]
    ELSE [status |-> 500, body |-> result.tag]

\* The match of search_clean_ip_map: Ok(country) => success(country) with
\* StatusCode::OK; Err(NoValueFound) => NOT_FOUND; Err(_) =>
\* INTERNAL_SERVER_ERROR with the error's text.
ReplyFor(result) ==
    CASE result.tag = "Ok" -> [status |-> 200, body |-> result.value]
      [] result.tag = "NoValueFound" ->
            [status |-> 404, body |-> "no country associated with IP address"]
      [] OTHER -> [status |-> 500, body |-> result.tag]

\* A handler enters search_clean_ip_map(ip_addr, &map) and calls
\* ip_map.try_search(ip_addr) through its shared reference: the map is read,
\* nothing of it is written.
HandlerLookup(h, k) ==
    /\ handler[h].pc = "idle"
    /\ \E impl \in SearchImpls :
          handler' = [handler EXCEPT ![h] =
                         [pc |-> "looked", key |-> k,
                          result |-> TrySearchResult(inner, dirty, k, impl),
                          reply |-> NoReply]]
    /\ UNCHANGED <<mapVars, entryVars, yielded, batchVars, phase, file, configVars, ctor, callVars>>

\* The handler turns the result into its one reply and returns.
HandlerRespond(h) ==
    /\ handler[h].pc = "looked"
    /\ handler' = [handler EXCEPT ![h].pc = "idle",
                                  ![h].reply = ReplyFor(handler[h].result)]
    /\ UNCHANGED <<mapVars, entryVars, yielded, batchVars, phase, file, configVars, ctor, callVars>>

\* search_clean_ip_map called on a map in whatever state inserts and cleanups
\* have left it.
NextReply ==
    \/ /\ inserted < MaxRecords
       /\ \E start \in Keys, end \in Keys, value \in Values : InsertNew(start, end, value)
    \/ Cleanup
    \/ \E k \in Keys : HandlerLookup("h1", k)
    \/ HandlerRespond("h1")

SpecReply == Init /\ [][NextReply]_vars

\* The loader starts: IpAddrMap::new_with_capacity(len), no record read yet.
InitServer ==
    /\ InitMap
    /\ args = NoArgs
    /\ made = NotMade
    /\ ordering = "None"
    /\ mutated = FALSE
    /\ phase = "loading"
    /\ handler = [h \in Handlers |-> IdleHandler]
    /\ file = <<>>
    /\ ctor = [kind |-> "new_with_capacity", capacity |-> MaxRecords]
    /\ IdleIter
    /\ IdleCall
    /\ IdleBatch
    /\ IdleConfig

\* A plausible slip: a record with an empty range passed over like one with an
\* unrecognized country, instead of the unwrap.
ReadRecordMapSkipsEmpty(start, end, country) ==
    LET r == IpAddrEntryNew(start, end, country)
    IN  IF country # Unrecognized /\ r.tag = "Ok"
        THEN /\ inserted < MaxRecords
             /\ Insert(Entry(r.start, r.end, r.value))
             /\ UNCHANGED phase
        ELSE /\ op' = "skip"
             /\ UNCHANGED <<inner, dirty, pending, inserted, cleanups, address, found, phase>>

\* A plausible slip: the country field not looked at, every record built and
\* inserted.
ReadRecordMapKeepsUnrecognized(start, end, country) ==
    LET r == IpAddrEntryNew(start, end, country)
    IN  IF r.tag = "Ok"
        THEN /\ inserted < MaxRecords
             /\ Insert(Entry(r.start, r.end, r.value))
             /\ UNCHANGED phase
        ELSE /\ phase' = "aborted"
             /\ op' = "panic"
             /\ UNCHANGED <<inner, dirty, pending, inserted, cleanups, address, found>>

\* The body of the loader's loop for one well-formed record, its effect on
\* the map and the start-up: a record whose country is not recognized is
\* reported and skipped; otherwise
\* map.insert(Ipv4AddrEntry::new(start, end, country).unwrap()), where the
\* unwrap of EmptyRangeError panics and ends the start-up.
ReadRecordMap(start, end, country) ==
    LET r == IpAddrEntryNew(start, end, country)
    IN  IF country = Unrecognized
        THEN /\ op' = "skip"
             /\ UNCHANGED <<inner, dirty, pending, inserted, cleanups, address, found, phase>>
        ELSE IF r.tag = "Ok"
        THEN /\ inserted < MaxRecords
             /\ Insert(Entry(r.start, r.end, r.value))
             /\ UNCHANGED phase
        ELSE /\ phase' = "aborted"
             /\ op' = "panic"
             /\ UNCHANGED <<inner, dirty, pending, inserted, cleanups, address, found>>

\* The body of the loader's loop for one well-formed record.
ReadRecord(start, end, country) ==
    /\ ReadRecordMap(start, end, country)
    /\ UNCHANGED <<entryVars, yielded, batchVars, handler, file, configVars, ctor, callVars>>

\* A plausible slip: records still read into the map after it was handed on.
LoadRecordAnyPhase(start, end, country) == ReadRecord(start, end, country)

\* for entry in reader.deserialize(): one turn of the loop of parse_ipv4_file
\* (parse_ipv6_file is the same), which runs only until the function returns.
LoadRecord(start, end, country) ==
    /\ phase = "loading"
    /\ ReadRecord(start, end, country)

\* let data: Schema = entry.unwrap() on a record that does not deserialize:
\* the panic ends the start-up.
LoadMalformed ==
    /\ phase = "loading"
    /\ phase' = "aborted"
    /\ op' = "panic"
    /\ UNCHANGED <<inner, dirty, pending, inserted, cleanups, address, found>>
    /\ UNCHANGED <<entryVars, yielded, batchVars, handler, file, configVars, ctor, callVars>>

\* The end of parse_ipv4_file: map.cleanup(); map
FinishParse ==
    /\ phase = "loading"
    /\ CleanupMap
    /\ phase' = "parsed"
    /\ UNCHANGED <<entryVars, yielded, batchVars, handler, file, configVars, ctor, callVars>>

\* parse_ipv4 of the server: map.cleanup() once more on the returned map.
ParseCleanup ==
    /\ phase = "parsed"
    /\ CleanupMap
    /\ phase' = "cleaned"
    /\ UNCHANGED <<entryVars, yielded, batchVars, handler, file, configVars, ctor, callVars>>

\* A plausible slip: the map wrapped for sharing while records are still read.
ShareUnfinished ==
    /\ phase \in {"loading", "cleaned"}
    /\ phase' = "shared"
    /\ UNCHANGED <<mapVars, entryVars, yielded, batchVars, handler, file, configVars, ctor, callVars>>

\* Maps::new: Arc::new(ipv4_map); from here the routes hold the map.
Share ==
    /\ phase = "cleaned"
    /\ phase' = "shared"
    /\ UNCHANGED <<mapVars, entryVars, yielded, batchVars, handler, file, configVars, ctor, callVars>>

\* The start-up of the server, then warp serving requests concurrently.
NextServer ==
    \/ \E start \in Keys, end \in Keys, country \in Values \cup {Unrecognized} :
          LoadRecord(start, end, country)
    \/ LoadMalformed
    \/ FinishParse
    \/ ParseCleanup
    \/ Share
    \/ /\ phase = "shared"
       /\ \E h \in Handlers, k \in Keys : HandlerLookup(h, k)
    \/ /\ phase = "shared"
       /\ \E h \in Handlers : HandlerRespond(h)

SpecServer == InitServer /\ [][NextServer]_vars

\* One turn of the loader's loop, the record it read kept for the record.
ReadNoted(start, end, country) ==
    /\ phase = "loading"
    /\ Len(file) < MaxRecords
    /\ ReadRecordMap(start, end, country)
    /\ file' = Append(file, [start |-> start, end |-> end, country |-> country])
    /\ UNCHANGED <<entryVars, yielded, batchVars, handler, configVars, ctor, callVars>>

\* parse_ipv4_file (parse_ipv6_file is the same) from its first record to its
\* return or its panic.
NextLoad ==
    \/ \E start \in Keys, end \in Keys, country \in Values \cup {Unrecognized} :
          ReadNoted(start, end, country)
    \/ LoadMalformed
    \/ FinishParse

SpecLoad == InitServer /\ [][NextLoad]_vars

-----------------------------------------------------------------------------
(* Entries changed through start_mut and end_mut before they are inserted *)

\* Most entries inserted into the map that the mutators work beside.
MaxHeld == 1

\* let mut entry = IpAddrEntry::new(start, end, value), when no entry is at
\* hand (none made yet, the last one moved into the map, or new gave an error).
MakeEntry(start, end, value) ==
    /\ made.tag # "Ok"
    /\ made' = IpAddrEntryNew(start, end, value)
    /\ UNCHANGED <<args, ordering, mutated, mapVars, otherVars>>

\* *entry.start_mut() = v: the reference lets the caller store any address.
StartMut(v) ==
    /\ made.tag = "Ok"
    /\ made' = [made EXCEPT !.start = v]
    /\ mutated' = TRUE
    /\ UNCHANGED <<args, ordering, mapVars, otherVars>>

\* *entry.end_mut() = v
EndMut(v) ==
    /\ made.tag = "Ok"
    /\ made' = [made EXCEPT !.end = v]
    /\ mutated' = TRUE
    /\ UNCHANGED <<args, ordering, mapVars, otherVars>>

\* map.insert(entry): the entry at hand is moved into the map as it is;
\* insert does not look at its bounds.
InsertEntry ==
    /\ made.tag = "Ok"
    /\ inserted < MaxHeld
    /\ Insert(Entry(made.start, made.end, made.value))
    /\ made' = NotMade
    /\ UNCHANGED <<args, ordering, mutated, otherVars>>

NextMut ==
    \/ \E start \in Keys, end \in Keys, value \in Values : MakeEntry(start, end, value)
    \/ \E v \in Keys : StartMut(v)
    \/ \E v \in Keys : EndMut(v)
    \/ InsertEntry
    \/ Cleanup
    \/ \E k \in Keys : Search(k)

SpecMut == Init /\ [][NextMut]_vars

-----------------------------------------------------------------------------
(* The deserializers' integer conversions and the run-type selection *)

\* A map untouched and nothing else going on, while a function is called on
\* one of the given arguments.
InitCalling(inputs) ==
    /\ InitMap
    /\ args = NoArgs
    /\ made = NotMade
    /\ ordering = "None"
    /\ mutated = FALSE
    /\ IdleIter
    /\ IdleBatch
    /\ IdleServer
    /\ IdleConfig
    /\ IdleCtor
    /\ input \in inputs
    /\ output = NoCall

\* const MASK: u32 = 0xFF
MaskU32 == 255

\* v >> shift on an unsigned integer
Shr(v, shift) == v \div (2 ^ shift)

\* x & mask for a mask of the form 2^n - 1: the low n bits of x
BitAnd(x, mask) == x % (mask + 1)

\* A plausible slip: the bytes taken from the low end first.
VisitU32LittleEndian(v) ==
    [index \in 0 .. 3 |-> BitAnd(Shr(v, index * 8), MaskU32) % 256]

\* visit_u32: array[index] = (v >> (3 - index) * u8::BITS & MASK) as u8,
\* and the array made an Ipv4Addr
VisitU32(v) ==
    [index \in 0 .. 3 |-> BitAnd(Shr(v, (3 - index) * 8), MaskU32) % 256]

\* u32::from(Ipv4Addr): the octets read as one big-endian number
Ipv4ToU32(octets) ==
    octets[0] * (2 ^ 24) + octets[1] * (2 ^ 16) + octets[2] * (2 ^ 8) + octets[3]

\* The values an octet of the argument takes; the first octet stays below 128
\* so that the argument is a number the checker can hold.
OctetSamples == {0, 1, 127, 255}
FirstOctetSamples == {0, 1, 127}

\* The u32 arguments: every combination of the sample octets.
U32Inputs ==
    {[kind |-> "visit_u32", v |-> a * (2 ^ 24) + b * (2 ^ 16) + c * (2 ^ 8) + d] :
        a \in FirstOctetSamples, b \in OctetSamples, c \in OctetSamples, d \in OctetSamples}

\* Ipv4Deserializer.visit_u32(v)
CallVisitU32 ==
    /\ input.kind = "visit_u32"
    /\ output = NoCall
    /\ output' = [kind |-> "Ipv4Addr", octets |-> VisitU32(input.v)]
    /\ UNCHANGED <<mapVars, entryVars, yielded, batchVars, serverVars, configVars, ctor, input>>

NextU32 == CallVisitU32

SpecU32 == InitCalling(U32Inputs) /\ [][NextU32]_vars

\* const MASK: u128 = 0xFF
MaskU128 == 255

\* A u128 is written as its eight 16-bit groups, the most significant first.
\* v >> (n * u16::BITS) drops the n least significant groups.
ShrGroups(v, n) == SubSeq(v, 1, Len(v) - n)

\* x & mask for a mask below 2^16: the bits come from the last group alone.
BitAndGroups(v, mask) == IF Len(v) = 0 THEN 0 ELSE BitAnd(v[Len(v)], mask)

\* visit_u128: array[index] = (v >> (7 - index) * u16::BITS & MASK) as u16,
\* and the array made an Ipv6Addr
VisitU128(v) ==
    [index \in 0 .. 7 |-> BitAndGroups(ShrGroups(v, 7 - index), MaskU128) % 65536]

\* The values a 16-bit group of the argument takes: 0, 0x00ff, 0x0db8.
GroupSamples == {0, 255, 3512}

\* The u128 arguments: every combination of the sample groups.
U128Inputs == {[kind |-> "visit_u128", v |-> g] : g \in [1 .. 8 -> GroupSamples]}

\* Ipv6Deserializer.visit_u128(v)
CallVisitU128 ==
    /\ input.kind = "visit_u128"
    /\ output = NoCall
    /\ output' = [kind |-> "Ipv6Addr", segments |-> VisitU128(input.v)]
    /\ UNCHANGED <<mapVars, entryVars, yielded, batchVars, serverVars, configVars, ctor, input>>

NextU128 == CallVisitU128

SpecU128 == InitCalling(U128Inputs) /\ [][NextU128]_vars

\* A plausible slip: the IPv6 address looked at before the IPv4 address.
GetRunTypeIpv6First(a) ==
    IF a.server = "Some(true)" THEN "Server"
    ELSE IF a.ipv6_addr # Absent THEN "Ipv6"
    ELSE IF a.ipv4_addr # Absent THEN "Ipv4"
    ELSE "None"

\* get_run_type(&arguments)
GetRunType(a) ==
    IF a.server # Absent /\ a.server = "Some(true)" THEN "Server"
    ELSE IF a.ipv4_addr # Absent THEN "Ipv4"
    ELSE IF a.ipv6_addr # Absent THEN "Ipv6"
    ELSE "None"

\* The arguments of the CLI that get_run_type reads, and the port, which it
\* does not read.
RunTypeInputs ==
    [kind : {"get_run_type"},
     server : {Absent, "Some(true)", "Some(false)"},
     ipv4_addr : {Absent, "Some(0.0.0.0)", "Some(1.2.3.4)", "Some(255.255.255.255)"},
     ipv6_addr : {Absent, "Some(::)", "Some(::1)", "Some(2001:db8::1)"},
     port : {Absent, "Some(26000)"}]

\* get_run_type(&arguments) applied to one set of arguments
CallGetRunType ==
    /\ input.kind = "get_run_type"
    /\ output = NoCall
    /\ output' = [kind |-> "RunType", value |-> GetRunType(input)]
    /\ UNCHANGED <<mapVars, entryVars, yielded, batchVars, serverVars, configVars, ctor, input>>

NextRunType == CallGetRunType

SpecRunType == InitCalling(RunTypeInputs) /\ [][NextRunType]_vars

-----------------------------------------------------------------------------
(* Introspection and the vocabulary of the properties *)

\* IpAddrMap::get_index_as_ref(index): &self.inner[index], 0-based
GetIndexAsRef(index) == inner[index + 1]

\* IpAddrMap::len()
MapLen == Len(inner)

\* (a.start, a.end) <= (b.start, b.end) lexicographically
LexLeq(a, b) == a.start < b.start \/ (a.start = b.start /\ a.end <= b.end)

Disjoint(a, b) == a.end < b.start \/ b.end < a.start

\* Any two stored entries are disjoint ranges, or the same entry stored twice.
PairwiseNonOverlapping ==
    \A i, j \in 1 .. Len(inner) :
        i # j => (EntryEq(inner[i], inner[j]) \/ Disjoint(inner[i], inner[j]))

\* Two stored entries that differ share an address.
HasOverlap ==
    \E i, j \in 1 .. Len(inner) :
        i # j /\ ~EntryEq(inner[i], inner[j]) /\ ~Disjoint(inner[i], inner[j])

\* Some stored entry contains the address of the last lookup.
SomeEntryContains == \E i \in 1 .. Len(inner) : RangeContains(inner[i], address)

\* The last lookup returned the value of a stored entry containing its address.
FoundAMatch ==
    \E i \in 1 .. Len(inner) :
        RangeContains(inner[i], address) /\ found = Some(inner[i].value)

\* The ends of the stored ranges ascend along the sequence, as the starts do
\* after a sort: no range ends before one that precedes it.
EndsAscend == \A i \in 1 .. Len(inner) - 1 : inner[i].end <= inner[i + 1].end

-----------------------------------------------------------------------------
(* Properties *)

\* C1. Containment correctness: after search(k) on a map whose entries are
\* pairwise non-overlapping, every stored entry e with e.start <= k <= e.end
\* (the two boundaries included) has its value returned: Some(e.value).
C1_ContainmentCorrectness ==
    (op = "search" /\ PairwiseNonOverlapping) =>
        \A i \in 1 .. Len(inner) :
            RangeContains(inner[i], address) => found = Some(inner[i].value)

\* C1 happens: two disjoint ranges of different values, the address the end
\* boundary of the second, and its value returned.
C1_Witness ==
    /\ op = "search"
    /\ Len(inner) = 2
    /\ PairwiseNonOverlapping
    /\ inner[1].value # inner[2].value
    /\ inner[2].start < inner[2].end
    /\ address = inner[2].end
    /\ found = Some(inner[2].value)

\* C2. Miss correctness: search(k) for an address that no stored entry
\* contains returns None, on any map: with the address in a gap between two
\* ranges, outside them all, or the map empty.
C2_MissCorrectness ==
    (op = "search" /\ ~SomeEntryContains) => found = None

\* C2 happens: the address lies in the gap between two stored ranges.
C2_Witness ==
    /\ op = "search"
    /\ Len(inner) = 2
    /\ inner[1].end < address
    /\ address < inner[2].start
    /\ found = None

\* C3. No duplicates: whenever the map is not dirty, no two positions of the
\* sequence hold structurally equal entries.
C3_NoDuplicates ==
    ~dirty => \A i, j \in 1 .. Len(inner) : i # j => ~EntryEq(inner[i], inner[j])

\* C4. Ordering invariant: whenever the map is not dirty, the entries at
\* positions i and i + 1, read through get_index_as_ref, are in ascending
\* lexicographic (start, end) order.
C4_OrderingInvariant ==
    ~dirty =>
        \A i \in 0 .. MapLen - 2 : LexLeq(GetIndexAsRef(i), GetIndexAsRef(i + 1))

\* C4 happens: a cleanup has put entries inserted out of order, two of them
\* with the same start, into order.
C4_Witness ==
    /\ ~dirty
    /\ op = "cleanup"
    /\ MapLen = 3
    /\ GetIndexAsRef(0).start = GetIndexAsRef(1).start
    /\ GetIndexAsRef(0).end < GetIndexAsRef(1).end
    /\ GetIndexAsRef(1).start < GetIndexAsRef(2).start

\* C5. Finalize idempotence: a cleanup that directly follows a cleanup leaves
\* the entry sequence and the dirty flag exactly as the first one left them.
C5_FinalizeIdempotence ==
    [][(op = "cleanup" /\ op' = "cleanup") => (inner' = inner /\ dirty' = dirty)]_vars

\* C5 happens: two cleanups in a row, on a map that still holds an adjacent
\* pair of equal entries after the first.
C5_Witness ==
    /\ cleanups = 2
    /\ op = "cleanup"
    /\ Len(inner) = 3
    /\ EntryEq(inner[1], inner[2])

\* C6. Duplicate collapse: the same entry inserted twice (or more) into an
\* empty map and cleaned up leaves a map of len() = 1 holding that entry, and
\* search(k) returns its value for every k of its range.
C6_DuplicateCollapse ==
    (inserted >= 2 /\ ~dirty) =>
        /\ MapLen = 1
        /\ EntryEq(GetIndexAsRef(0), made)
        /\ (op = "search" /\ RangeContains(made, address)) => found = Some(made.value)

\* C6 happens: two inserts of the made entry, and a search for its end
\* boundary that returned its value.
C6_Witness ==
    /\ inserted = 2
    /\ ~dirty
    /\ op = "search"
    /\ made.start < made.end
    /\ address = made.end
    /\ found = Some(made.value)

\* C7. Range validity: IpAddrEntry::new(start, end, value) is EmptyRangeError
\* when start > end, and an entry of exactly (start, end, value) when
\* start <= end, start = end included.
C7_RangeValidity ==
    made # NotMade =>
        /\ args.start > args.end => made = EmptyRangeError
        /\ args.start <= args.end =>
              /\ made.tag = "Ok"
              /\ made.start = args.start
              /\ made.end = args.end
              /\ made.value = args.value

\* C7 happens: a single-address range was built.
C7_Witness ==
    /\ made.tag = "Ok"
    /\ args.start = args.end
    /\ made.start = made.end

\* C8. Three-way comparison of an entry with an address k: Equal exactly when
\* start <= k <= end, Less exactly when end < k, Greater exactly when
\* k < start, and the result is one of the three.
C8_ThreeWayCompare ==
    ordering # "None" =>
        /\ ordering \in {"Less", "Equal", "Greater"}
        /\ ordering = "Equal" <=> (made.start <= args.key /\ args.key <= made.end)
        /\ ordering = "Less" <=> made.end < args.key
        /\ ordering = "Greater" <=> args.key < made.start

\* C8 happens: an address equal to the end of a range of several addresses
\* compared Equal.
C8_Witness ==
    /\ ordering = "Equal"
    /\ made.start < made.end
    /\ args.key = made.end

\* C9. Unchecked-path precondition: try_search on a map with an insert since
\* its last finalize returns DirtyMap (no value, no NoValueFound) and leaves
\* the entry sequence and the dirty flag as they were.
C9_DirtyMapOnPendingInserts ==
    [][(op' = "try_search" /\ pending) =>
          (found' = DirtyMap /\ inner' = inner /\ dirty' = dirty)]_vars

\* C9 happens: try_search ran on a map holding entries with inserts pending,
\* and returned DirtyMap.
C9_Witness ==
    /\ op = "try_search"
    /\ pending
    /\ Len(inner) >= 1
    /\ found = DirtyMap

C11_IterationAlwaysSorted ==
    yielded.consumed =>
        \A i \in 1 .. Len(yielded.items) - 1 : LexLeq(yielded.items[i], yielded.items[i + 1])

\* C11 as amended. Consuming by into_iter a map that is not dirty (no insert
\* since its last cleanup) yields the entries in ascending lexicographic
\* (start, end) order.
C11_IterationSortedWhenClean ==
    (yielded.consumed /\ ~dirty) =>
        \A i \in 1 .. Len(yielded.items) - 1 : LexLeq(yielded.items[i], yielded.items[i + 1])

\* C11 happens: a cleaned map of three entries of different keys was consumed.
C11_Witness ==
    /\ yielded.consumed
    /\ ~dirty
    /\ inserted = 3
    /\ Len(yielded.items) = 3
    /\ ~LexLeq(yielded.items[2], yielded.items[1])
    /\ ~LexLeq(yielded.items[3], yielded.items[2])

\* C13. Dirty-flag accuracy: the dirty flag is true exactly when at least one
\* insert was made since the most recent cleanup or search (or since
\* construction, when there was none); an insert after a cleanup sets it again.
C13_DirtyFlagAccuracy == dirty <=> pending

\* C13 happens: a cleanup removed a duplicate, and a later insert has set the
\* flag again.
C13_Witness ==
    /\ dirty
    /\ pending
    /\ op = "insert"
    /\ inserted = 3
    /\ Len(inner) = 2

\* C18. Insert effect and frame: insert puts the entry last, the length grows
\* by exactly one, the entries stored before keep their positions and order
\* (nothing is sorted or removed), and the dirty flag is true afterwards.
C18_InsertFrame ==
    [][inserted' # inserted =>
          /\ Len(inner') = Len(inner) + 1
          /\ SubSeq(inner', 1, Len(inner)) = inner
          /\ \E start \in Keys, end \in Keys, value \in Values :
                /\ IpAddrEntryNew(start, end, value).tag = "Ok"
                /\ inner'[Len(inner')] = Entry(start, end, value)
          /\ dirty']_vars

\* C18 happens: an insert onto a cleaned map put a smaller entry after a
\* larger one, and a duplicate of the first entry stays.
C18_Witness ==
    /\ op = "insert"
    /\ dirty
    /\ Len(inner) = 3
    /\ ~LexLeq(inner[2], inner[3])
    /\ EntryEq(inner[1], inner[3])

\* C20. Finalize on a clean map does nothing: a cleanup or a search on a map
\* that is not dirty leaves the entry sequence, its length and the dirty flag
\* as they were.
C20_CleanMapUntouched ==
    [][(~dirty /\ op' \in {"cleanup", "search"}) =>
          /\ inner' = inner
          /\ Len(inner') = Len(inner)
          /\ dirty' = dirty]_vars

\* C20 happens: a second cleanup in a row ran on a clean map that holds two
\* entries of the same key, which a sort would be free to exchange.
C20_Witness ==
    /\ cleanups = 2
    /\ op = "cleanup"
    /\ ~dirty
    /\ \E i \in 1 .. Len(inner) - 1 :
          /\ inner[i].start = inner[i + 1].start
          /\ inner[i].end = inner[i + 1].end
          /\ inner[i].value # inner[i + 1].value

\* The entries of a set in ascending order of start.
AscendingOf(b) ==
    CHOOSE s \in [1 .. Cardinality(b) -> b] :
        \A i \in 1 .. Cardinality(b) - 1 : s[i].start < s[i + 1].start

\* What a lookup of k owes to a set of entries: the value of the entry that
\* contains k, or None.
LookupOf(b, k) ==
    IF \E e \in b : RangeContains(e, k)
    THEN Some((CHOOSE e \in b : RangeContains(e, k)).value)
    ELSE None

\* C12. Insertion-order independence: a set of pairwise non-overlapping
\* entries, inserted in any order, gives after cleanup one and the same
\* sequence (the entries ascending), and search(k) gives for every k one and
\* the same result (that of the set), whichever order the inserts took.
C12_InsertionOrderIndependence ==
    (todo = {} /\ ~dirty) =>
        /\ inner = AscendingOf(batch)
        /\ op = "search" => found = LookupOf(batch, address)

\* C12 happens: three entries were inserted (in one of their six orders), and
\* a search after them found the value of the last.
C12_Witness ==
    /\ Cardinality(batch) = 3
    /\ todo = {}
    /\ ~dirty
    /\ op = "search"
    /\ address = 2
    /\ found.tag = "Some"

\* C17. Configuration precedence: for each of the six database options,
\* get_config yields the command-line value when one is given, otherwise the
\* value of the config file when the file supplies one, otherwise the default.
C17_ConfigPrecedence ==
    (\E o \in Options : config[o] # Absent) =>
        \A o \in Options :
            config[o] = IF arguments[o] # Absent THEN arguments[o]
                        ELSE IF configFile.status = "read" /\ configFile.options[o] # Absent
                             THEN configFile.options[o]
                        ELSE Default[o]

\* IpAddrMap::is_empty()
IsEmpty == inner = <<>>

\* C19. Initial state: a map made by new, by new_with_capacity with any
\* capacity, or by default has len() = 0, is_empty() = true and dirty = false
\* (before and after searching it), and search(k) returns None for every k.
C19_InitialState ==
    /\ MapLen = 0
    /\ IsEmpty
    /\ ~dirty
    /\ op = "search" => found = None

\* C19 happens: a map made with a capacity of 3 was searched and gave None.
C19_Witness ==
    /\ ctor = [kind |-> "new_with_capacity", capacity |-> 3]
    /\ op = "search"
    /\ address = 1
    /\ found = None

\* C14. Server response mapping: every request that was answered has exactly
\* one reply, whose status is 200 with the country found when the lookup
\* succeeded, 404 when it gave NoValueFound, and 500 for every other error.
C14_ResponseMapping ==
    \A h \in Handlers :
        LET result == handler[h].result
            reply == handler[h].reply
        IN  /\ (handler[h].pc = "idle" /\ handler[h].key # -1) => reply # NoReply
            /\ reply # NoReply =>
                  /\ reply.status \in {200, 404, 500}
                  /\ result.tag = "Ok" <=> reply.status = 200
                  /\ result.tag = "Ok" => reply.body = result.value
                  /\ result.tag = "NoValueFound" <=> reply.status = 404
                  /\ result.tag \notin {"Ok", "NoValueFound"} <=> reply.status = 500

\* C14 happens: a request for an address that no entry of a clean map holds
\* was answered with 404.
C14_Witness ==
    /\ ~dirty
    /\ Len(inner) = 2
    /\ handler["h1"].pc = "idle"
    /\ handler["h1"].result = NoValueFound
    /\ handler["h1"].reply.status = 404

\* What try_search(k) gives on the map as it stands, called with nothing else
\* running.
AloneResults(k) == {TrySearchResult(inner, dirty, k, impl) : impl \in SearchImpls}

\* C15. Concurrent readers: once the cleaned map is behind the shared handle,
\* no step of any handler, in any interleaving, changes the entry sequence or
\* the dirty flag, and the result each handler holds is the result its
\* try_search gives on the map when run alone.
C15_ConcurrentReaders ==
    [][phase = "shared" =>
          /\ inner' = inner
          /\ dirty' = dirty
          /\ \A h \in Handlers :
                handler'[h].pc = "looked" => handler'[h].result \in AloneResults(handler'[h].key)]_vars

\* C15 happens: two handlers are between lookup and reply at once, one with a
\* country found and one with none.
C15_Witness ==
    /\ phase = "shared"
    /\ Len(inner) = 2
    /\ handler["h1"].pc = "looked"
    /\ handler["h2"].pc = "looked"
    /\ handler["h1"].result.tag = "Ok"
    /\ handler["h2"].result = NoValueFound

\* C16. Finalize-before-share ordering: whenever the map is behind the shared
\* handle it is not dirty and no insert was made since its last cleanup, and
\* no handler ever holds the DirtyMap error or answers with status 500.
C16_FinalizeBeforeShare ==
    phase = "shared" =>
        /\ ~dirty
        /\ ~pending
        /\ op # "insert"
        /\ \A h \in Handlers :
              /\ handler[h].result # DirtyMap
              /\ handler[h].reply.status # 500

\* C16 happens: records were inserted, the map was cleaned and shared, and a
\* request was answered from it.
C16_Witness ==
    /\ phase = "shared"
    /\ inserted = 2
    /\ Len(inner) = 2
    /\ handler["h1"].reply.status = 200
    /\ handler["h2"].reply.status = 404

\* What search(k) gives on the map as it stands once cleanup has run on it.
CleanupThenSearch(k) ==
    {SearchResult(t, k, impl) : t \in CleanupInner(inner, dirty), impl \in SearchImpls}

\* C21. Auto-finalizing lookup: when search(k) has returned, hit or miss, the
\* map is not dirty and no insert is left pending, its entries are in
\* ascending order, and the result is the one that cleanup followed by
\* search(k) gives.
C21_AutoFinalizingLookup ==
    op = "search" =>
        /\ ~dirty
        /\ ~pending
        /\ \A i \in 1 .. Len(inner) - 1 : LexLeq(inner[i], inner[i + 1])
        /\ found \in CleanupThenSearch(address)

\* C21 happens: three inserts with a repeat among them and no cleanup call
\* since the last of them; the search removed the repeat and found a value.
C21_Witness ==
    /\ op = "search"
    /\ inserted = 3
    /\ Len(inner) = 2
    /\ cleanups = 0
    /\ found.tag = "Some"
    /\ address = 2

\* C29. Lookup soundness: on every map that inserts and cleanups can produce,
\* overlapping and repeated entries included, a value returned by search(k) is
\* the value of an entry that the map holds and whose range contains k.
C29_LookupSoundness ==
    (op = "search" /\ found.tag = "Some") =>
        \E i \in 1 .. Len(inner) :
            /\ inner[i].start <= address
            /\ address <= inner[i].end
            /\ inner[i].value = found.value

\* C29 happens: a value was returned from a map with two overlapping entries
\* of different values, of which only one contains the address.
C29_Witness ==
    /\ op = "search"
    /\ found.tag = "Some"
    /\ Len(inner) = 2
    /\ inner[1].value # inner[2].value
    /\ ~Disjoint(inner[1], inner[2])
    /\ RangeContains(inner[1], address) # RangeContains(inner[2], address)

\* The set of distinct entries of a sequence.
EntrySet(s) == {s[i] : i \in 1 .. Len(s)}

\* C30. Finalize preserves content: the set of distinct (start, end, value)
\* entries after a cleanup is the set before it, and len() after it is not
\* greater than before.
C30_CleanupPreservesContent ==
    [][op' = "cleanup" =>
          /\ EntrySet(inner') = EntrySet(inner)
          /\ Len(inner') <= Len(inner)]_vars

\* C30 happens: a cleanup of three inserted entries left two different
\* entries, one repeat removed.
C30_Witness ==
    /\ op = "cleanup"
    /\ cleanups = 1
    /\ inserted = 3
    /\ Len(inner) = 2
    /\ ~EntryEq(inner[1], inner[2])

\* std::cmp::Ordering
Orderings == {"Less", "Equal", "Greater"}

\* C22. Comparator totality: for every entry that is in the map or at hand,
\* changed through the mutators or not, and every address, partial_cmp gives
\* Less, Equal or Greater and does not come to its unreachable arm; no search
\* has panicked, and none would on the map as it stands.
C22_ComparatorTotality ==
    /\ \A i \in 1 .. Len(inner), k \in Keys : PartialCmp(inner[i], k) \in Orderings
    /\ made.tag = "Ok" =>
          \A k \in Keys : PartialCmp(Entry(made.start, made.end, made.value), k) \in Orderings
    /\ found # Panic
    /\ \A t \in CleanupInner(inner, dirty), k \in Keys, impl \in SearchImpls :
          BinarySearchBy(t, k, impl) # Panicked

\* C22 happens: a map whose one entry was given a start past its end was
\* searched, and the search returned None.
C22_Witness ==
    /\ op = "search"
    /\ Len(inner) = 1
    /\ inner[1].start > inner[1].end
    /\ address = 1
    /\ found = None

\* C23 as first stated. Entry well-formedness: every entry held by the map
\* satisfies start <= end, after any sequence of entry construction, mutator
\* calls (start_mut, end_mut), insert, cleanup and search.
C23_EntriesWellFormed == \A i \in 1 .. Len(inner) : inner[i].start <= inner[i].end

\* C23 as amended. Every entry held by the map satisfies start <= end after
\* any sequence of entry construction, insert, cleanup and search in which no
\* bound was stored through start_mut or end_mut.
C23_WellFormedUnlessMutated ==
    ~mutated => \A i \in 1 .. Len(inner) : inner[i].start <= inner[i].end

\* C23 happens: an entry was built, inserted and searched for, and a second
\* one built, with no mutator call.
C23_Witness ==
    /\ ~mutated
    /\ Len(inner) = 1
    /\ op = "search"
    /\ found.tag = "Some"
    /\ made.tag = "Ok"

\* No entry of the map has the range of the record.
NeverInserted(r) ==
    \A i \in 1 .. Len(inner) : ~(inner[i].start = r.start /\ inner[i].end = r.end)

\* C24 as first stated. Loader handling of an empty range: once the loader has
\* read a record with start > end, the record is not inserted, the load has
\* aborted (no map is returned) and no later record is processed.
C24_EmptyRangeAborts ==
    \A j \in 1 .. Len(file) :
        file[j].start > file[j].end =>
            /\ NeverInserted(file[j])
            /\ phase = "aborted"
            /\ j = Len(file)

\* C24 as amended. Once the loader has read a record with start > end whose
\* country is recognized, the record is not inserted, the load has aborted
\* (no map is returned) and no later record is processed.
C24_EmptyRangeOfKnownCountryAborts ==
    \A j \in 1 .. Len(file) :
        (file[j].start > file[j].end /\ file[j].country # Unrecognized) =>
            /\ NeverInserted(file[j])
            /\ phase = "aborted"
            /\ j = Len(file)

\* C24 happens: the first record was inserted, the second has an empty range
\* and a recognized country, and the load is aborted.
C24_Witness ==
    /\ phase = "aborted"
    /\ Len(file) = 2
    /\ file[2].start > file[2].end
    /\ file[2].country \in Values
    /\ Len(inner) = 1

\* The entries of the records read so far whose country is recognized.
RecognizedEntries ==
    {Entry(file[j].start, file[j].end, file[j].country) :
        j \in {n \in 1 .. Len(file) : file[n].country # Unrecognized}}

\* C25. Loader handling of an unrecognized country: no entry of an
\* unrecognized country is ever in the map; after such a record is skipped
\* the loader is still loading; and the map the loader returns holds exactly
\* the entries of the recognized records and is not dirty.
C25_UnrecognizedCountrySkipped ==
    /\ \A i \in 1 .. Len(inner) : inner[i].value # Unrecognized
    /\ op = "skip" => (phase = "loading" /\ file[Len(file)].country = Unrecognized)
    /\ phase = "parsed" => (~dirty /\ EntrySet(inner) = RecognizedEntries)

\* C25 happens: a record of an unrecognized country, then a recognized one,
\* and the returned map holds the one entry.
C25_Witness ==
    /\ phase = "parsed"
    /\ Len(file) = 2
    /\ file[1].country = Unrecognized
    /\ file[2].country \in Values
    /\ Len(inner) = 1

\* C26. u128 to IPv6 conversion: for every u128 v, visit_u128 returns the
\* address whose eight segments are the 16-bit groups of v, the most
\* significant first.
C26_U128ToIpv6 ==
    output.kind = "Ipv6Addr" =>
        \A index \in 0 .. 7 : output.segments[index] = input.v[index + 1]

\* The byte of v at a position, position 0 the most significant of four: what
\* is left of v below the bytes before it, over the bytes after it.
BigEndianByte(v, index) ==
    IF index = 0
    THEN v \div (2 ^ 24)
    ELSE (v % (2 ^ (8 * (4 - index)))) \div (2 ^ (8 * (3 - index)))

\* C27. u32 to IPv4 conversion: for every u32 v, visit_u32 returns the
\* address whose four octets are the big-endian bytes of v, and the address
\* converted back to u32 is v.
C27_U32ToIpv4 ==
    output.kind = "Ipv4Addr" =>
        /\ \A index \in 0 .. 3 :
              /\ output.octets[index] \in 0 .. 255
              /\ output.octets[index] = BigEndianByte(input.v, index)
        /\ Ipv4ToU32(output.octets) = input.v

\* C27 happens: the number of 1.127.255.0 was converted.
C27_Witness ==
    /\ output.kind = "Ipv4Addr"
    /\ input.v = 25165568
    /\ output.octets = [index \in 0 .. 3 |-> <<1, 127, 255, 0>>[index + 1]]

\* C28. Run-type selection: get_run_type returns Server whenever the server
\* flag is Some(true), whatever the address arguments; otherwise Ipv4 whenever
\* an IPv4 address is given, an IPv6 address given or not; otherwise Ipv6 when
\* an IPv6 address is given; otherwise None.
C28_RunTypeSelection ==
    output.kind = "RunType" =>
        /\ input.server = "Some(true)" => output.value = "Server"
        /\ (input.server # "Some(true)" /\ input.ipv4_addr # Absent) => output.value = "Ipv4"
        /\ (input.server # "Some(true)" /\ input.ipv4_addr = Absent /\ input.ipv6_addr # Absent)
              => output.value = "Ipv6"
        /\ (input.server # "Some(true)" /\ input.ipv4_addr = Absent /\ input.ipv6_addr = Absent)
              => output.value = "None"

\* C28 happens: both addresses given and the server flag Some(false); the run
\* type is Ipv4.
C28_Witness ==
    /\ output.kind = "RunType"
    /\ input.server = "Some(false)"
    /\ input.ipv4_addr # Absent
    /\ input.ipv6_addr # Absent
    /\ output.value = "Ipv4"

=============================================================================
